---- MODULE Spec2Model ----
(***************************************************************************)
(* The request caching, pagination and batching layer of                   *)
(* video_finder/video_finder.py (class YoutubeAPI), and the search of      *)
(* class YoutubeFinder with the domain objects it returns.                 *)
(*                                                                         *)
(* Representation.                                                         *)
(*  - A Python dict of request parameters is a sequence of <<key, value>>  *)
(*    pairs in insertion order (keys are unique strings); a value is       *)
(*    PyInt(n) or PyStr(s) until _request has stringified it.              *)
(*  - A JSON object is a record; `k in d.keys()` is `k \in DOMAIN d`.      *)
(*  - datetime.now() is the integer variable now; a timedelta is a number  *)
(*    of ticks.  str(datetime) / datetime.fromisoformat are the pair       *)
(*    StrOfDatetime / FromIsoFormat.                                       *)
(*  - hashlib.sha224(..).hexdigest() is taken to be collision free: the    *)
(*    digest of s is represented by the record [sha224 |-> s].             *)
(*  - The backing file is the record disk: exists, parses (its content is  *)
(*    a complete JSON document) and data (the document).                   *)
(*  - Cache entries carry two history fields the program does not store,   *)
(*    origin (the request that produced the payload) and writer (the       *)
(*    credential of the client that stored it).  No operation reads them.  *)
(***************************************************************************)
EXTENDS Integers, Sequences, FiniteSets, TLC

VARIABLES
    now,    \* the wall clock read by datetime.now()
    disk,   \* the dump directory and the backing file .request_cache.json
    api,    \* the YoutubeAPI instances (one process each)
    net,    \* the number of calls of the transport (requests.get) so far
    last,   \* the most recent self._request(...) call: what was asked, what
            \* reached the transport, what came back
    sa,     \* the frame of a running search_all call
    ba,     \* the frame of a running channels_all / videos_all call
    call,   \* the frame of a call made from outside the class: the arguments
            \* of a search / channels / videos call, or a running
            \* YoutubeFinder.search_videos call
    fields  \* YoutubeVideo.fields, the class attribute all instances share
            \* (the entry for video_id, the only one the code assigns)

vars == <<now, disk, api, net, last, sa, ba, call, fields>>

----------------------------------------------------------------------------
(* Bounds of the model *)

MaxTime == 3
MaxCalls == 3
MaxTtl == 2
MaxPages == 4
MaxIds == 125
MaxSharedCalls == 2
MaxParamCalls == 2
MaxHeld == 3

(* Program constants *)

BASE_URL == "https://www.googleapis.com/youtube/v3/"
DEFAULT_MAX_RESULTS == 50
max_results == 50

Clients == {1, 2}
DeveloperKey(c) == IF c = 1 THEN "K1" ELSE "K2"

----------------------------------------------------------------------------
(* Strings and dicts *)

\* a Python value held by a parameter dict: an int or a str
PyInt(n) == [type |-> "int", v |-> n]
PyStr(s) == [type |-> "str", v |-> s]

\* str(value) / f"{value}"
Str(x) == IF x.type = "int" THEN ToString(x.v) ELSE x.v

RECURSIVE JoinTo(_, _, _)
\* sep.join(seq[:n])
JoinTo(sep, seq, n) ==
    IF n = 0 THEN ""
    ELSE IF n = 1 THEN seq[1]
    ELSE JoinTo(sep, seq, n - 1) \o sep \o seq[n]

\* sep.join(seq)
Join(sep, seq) == JoinTo(sep, seq, Len(seq))

HasKey(d, k) == \E i \in DOMAIN d : d[i][1] = k

\* d[k] of a dict that holds k
Get(d, k) == d[CHOOSE i \in DOMAIN d : d[i][1] = k][2]

\* d.update({k: v}): a present key keeps its position, a new key is appended
Update(d, k, v) ==
    IF HasKey(d, k)
    THEN [i \in DOMAIN d |-> IF d[i][1] = k THEN <<k, v>> ELSE d[i]]
    ELSE Append(d, <<k, v>>)

\* the key/value pairs of a dict, whatever their insertion order
Pairs(d) == {d[i] : i \in DOMAIN d}

Truthy(v) == v # ""

----------------------------------------------------------------------------
(* Fingerprint: do_caching, lines 117-122 *)

param_str_list(params) ==
    [i \in DOMAIN params |-> params[i][1] \o ":" \o Str(params[i][2])]

to_hash(method, params) == method \o Join(",", param_str_list(params))

Sha224Hex(s) == [sha224 |-> s]

request_hash(method, params) == Sha224Hex(to_hash(method, params))

----------------------------------------------------------------------------
(* Timestamps *)

StrOfDatetime(t) == [iso |-> t]
FromIsoFormat(time_str) == time_str.iso

\* faulty variants of NotExpired: the comparison reversed, the bound included
NotExpired_Reversed(time_str, t, expires) ==
    t - FromIsoFormat(time_str) > expires

NotExpired_Inclusive(time_str, t, expires) ==
    t - FromIsoFormat(time_str) <= expires

\* datetime.now() - time < self._expires, lines 110 and 128
NotExpired(time_str, t, expires) == t - FromIsoFormat(time_str) < expires

----------------------------------------------------------------------------
(* The transport and the provider *)

NoCall == [url |-> "", params |-> <<>>]
NoReply == [kind |-> "none"]
NoValue == [none |-> TRUE]

\* YoutubeAPIException.__init__: response['error']['message'].  The member
\* 'error' is an object (with or without 'message') or, field scalar, a JSON
\* value that is no object.
ExceptionOf(response) ==
    IF "scalar" \in DOMAIN response.error THEN "TypeError"
    ELSE IF "message" \notin DOMAIN response.error THEN "KeyError"
    ELSE "YoutubeAPIException"

\* faulty variant of RawRequest: _check_for_errors is not called
RawRequest_Unchecked(a, method, params, reply) ==
    LET strparams == [i \in DOMAIN params |->
                         <<params[i][1], Str(params[i][2])>>]
        request_params == Update(strparams, "key", a.developer_key)
        sent == [url |-> BASE_URL \o method, params |-> request_params]
    IN  IF reply.kind = "ConnectionError"
        THEN [exc |-> "ConnectionError", value |-> NoValue, sent |-> sent]
        ELSE IF reply.kind = "NotJson"
        THEN [exc |-> "ValueError", value |-> NoValue, sent |-> sent]
        ELSE [exc |-> "none", value |-> reply.body, sent |-> sent]

\* _request, lines 149-163: the undecorated request
RawRequest(a, method, params, reply) ==
    LET strparams == [i \in DOMAIN params |->
                         <<params[i][1], Str(params[i][2])>>]
        request_params == Update(strparams, "key", a.developer_key)
        sent == [url |-> BASE_URL \o method, params |-> request_params]
    IN  IF reply.kind = "ConnectionError"
        THEN [exc |-> "ConnectionError", value |-> NoValue, sent |-> sent]
        ELSE IF reply.kind = "NotJson"
        THEN [exc |-> "ValueError", value |-> NoValue, sent |-> sent]
        ELSE IF "error" \in DOMAIN reply.body
        THEN [exc |-> ExceptionOf(reply.body), value |-> NoValue, sent |-> sent]
        ELSE [exc |-> "none", value |-> reply.body, sent |-> sent]

\* faulty variant of Put: the other entries are dropped
Put_Fresh(cache, h, entry) == (h :> entry)

\* self._cache[request_hash] = (time_str, response_json), line 137
Put(cache, h, entry) == (h :> entry) @@ cache

\* faulty variant of Cached: a hit stores the entry again with the clock of
\* the lookup
Cached_Touch(h, a, method, params, reply, t0, t1) ==
        IF h \in DOMAIN a.cache /\ NotExpired(a.cache[h].time_str, t0, a.expires)
        THEN [exc |-> "none", value |-> a.cache[h].response, called |-> FALSE,
              sent |-> NoCall,
              cache |-> Put(a.cache, h,
                            [a.cache[h] EXCEPT !.time_str = StrOfDatetime(t0)]),
              wrote |-> FALSE]
        ELSE LET r == RawRequest(a, method, params, reply)
             IN  IF r.exc # "none"
                 THEN [exc |-> r.exc, value |-> NoValue, called |-> TRUE,
                       sent |-> r.sent, cache |-> a.cache, wrote |-> FALSE]
                 ELSE [exc |-> "none", value |-> r.value, called |-> TRUE,
                       sent |-> r.sent,
                       cache |-> Put(a.cache, h,
                                     [time_str |-> StrOfDatetime(t1),
                                      response |-> r.value,
                                      origin |-> <<method, params>>,
                                      writer |-> a.developer_key]),
                       wrote |-> TRUE]

\* do_caching, lines 123-142, for the request hash h.  t0 is the clock at the
\* lookup (line 128), t1 the clock at the store (line 137).
Cached(h, a, method, params, reply, t0, t1) ==
        IF h \in DOMAIN a.cache /\ NotExpired(a.cache[h].time_str, t0, a.expires)
        THEN [exc |-> "none", value |-> a.cache[h].response, called |-> FALSE,
              sent |-> NoCall, cache |-> a.cache, wrote |-> FALSE]
        ELSE LET r == RawRequest(a, method, params, reply)
             IN  IF r.exc # "none"
                 THEN [exc |-> r.exc, value |-> NoValue, called |-> TRUE,
                       sent |-> r.sent, cache |-> a.cache, wrote |-> FALSE]
                 ELSE [exc |-> "none", value |-> r.value, called |-> TRUE,
                       sent |-> r.sent,
                       cache |-> Put(a.cache, h,
                                     [time_str |-> StrOfDatetime(t1),
                                      response |-> r.value,
                                      origin |-> <<method, params>>,
                                      writer |-> a.developer_key]),
                       wrote |-> TRUE]

\* faulty variant of CachedRequest: the credential is hashed with the
\* parameters
CachedRequest_KeyInHash(a, method, params, reply, t0, t1) ==
    Cached(request_hash(method,
                        Update(params, "key", PyStr(a.developer_key))),
           a, method, params, reply, t0, t1)

\* do_caching, lines 116-142: the request as decorated by _cached_request
CachedRequest(a, method, params, reply, t0, t1) ==
    Cached(request_hash(method, params), a, method, params, reply, t0, t1)

\* faulty variant of ApiRequest: the request is decorated whatever the
\* caching argument was
ApiRequest_Decorated(a, method, params, reply, t0, t1) ==
    CachedRequest(a, method, params, reply, t0, t1)

\* self._request as bound in __init__, lines 92 and 113
ApiRequest(a, method, params, reply, t0, t1) ==
    IF a.caching
    THEN CachedRequest(a, method, params, reply, t0, t1)
    ELSE LET r == RawRequest(a, method, params, reply)
         IN  [exc |-> r.exc, value |-> r.value, called |-> TRUE,
              sent |-> r.sent, cache |-> a.cache, wrote |-> FALSE]

----------------------------------------------------------------------------
(* Parameter marshalling: search, channels, videos *)

\* astimezone().isoformat() of a datetime argument, lines 227-228, 231-232:
\* the local UTC offset is attached to the naive value
UtcOffset == "+00:00"
Rfc3339(d) == d \o UtcOffset

\* faulty variant of UpdateIf: the parameter is added whatever the argument
UpdateIf_Always(d, v, k, val) == Update(d, k, PyStr(val))

\* `if v: params.update({k: val})`
UpdateIf(d, v, k, val) == IF Truthy(v) THEN Update(d, k, PyStr(val)) ELSE d

\* the defaults of search's signature, lines 165-182 (None and "" are both
\* written "", an enum member is written as its value)
SearchDefaults ==
    [channel_id |-> "", search_query |-> "", order |-> "date",
     max_results |-> DEFAULT_MAX_RESULTS, published_after |-> "",
     published_before |-> "", relevance_language |-> "",
     result_type |-> <<"video">>, part |-> "snippet", page_token |-> "",
     event_type |-> "", duration |-> "", caption |-> "", embeddable |-> "",
     definition |-> "", related_to_video_id |-> ""]

\* search, lines 215-249: the params handed to self._request("search", ..)
SearchParams(a) ==
    LET p0  == << <<"part", PyStr(a.part)>>, <<"order", PyStr(a.order)>>,
                  <<"maxResults", PyInt(a.max_results)>>,
                  <<"type", PyStr(Join(",", a.result_type))>> >>
        p1  == UpdateIf(p0, a.search_query, "q", a.search_query)
        p2  == UpdateIf(p1, a.channel_id, "channelId", a.channel_id)
        p3  == UpdateIf(p2, a.published_before, "publishedBefore",
                        Rfc3339(a.published_before))
        p4  == UpdateIf(p3, a.published_after, "publishedAfter",
                        Rfc3339(a.published_after))
        p5  == UpdateIf(p4, a.relevance_language, "relevanceLanguage",
                        a.relevance_language)
        p6  == UpdateIf(p5, a.page_token, "pageToken", a.page_token)
        p7  == UpdateIf(p6, a.event_type, "eventType", a.event_type)
        p8  == UpdateIf(p7, a.duration, "videoDuration", a.duration)
        p9  == UpdateIf(p8, a.caption, "videoCaption", a.caption)
        p10 == UpdateIf(p9, a.embeddable, "videoEmbeddable", a.embeddable)
        p11 == UpdateIf(p10, a.definition, "videoDefinition", a.definition)
    IN  UpdateIf(p11, a.related_to_video_id, "relatedToVideoId",
                 a.related_to_video_id)

\* channels, lines 259-263, and videos, lines 273-277 (the same marshalling)
IdsParams(ids, maxres, page_token, part) ==
    UpdateIf(<< <<"part", PyStr(part)>>, <<"maxResults", PyInt(maxres)>>,
                <<"id", PyStr(Join(",", ids))>> >>,
             page_token, "pageToken", page_token)

ChannelsParams(channel_ids, part) ==
    IdsParams(channel_ids, DEFAULT_MAX_RESULTS, "", part)

VideosParams(video_ids, part) ==
    IdsParams(video_ids, DEFAULT_MAX_RESULTS, "", part)

----------------------------------------------------------------------------
(* The provider's replies *)

\* the items of the n-th transport reply: k items, told apart by n and position
Items(n, k) == [i \in 1..k |-> [etag |-> n, pos |-> i]]

ErrorBodies ==
    { [error |-> [message |-> "quotaExceeded"]],
      [error |-> [code |-> "403"]],
      [error |-> [scalar |-> "quotaExceeded"]] }

ErrorReplies == { [kind |-> "Json", body |-> b] : b \in ErrorBodies }

FailureReplies ==
    { [kind |-> "ConnectionError"], [kind |-> "NotJson"] } \cup ErrorReplies

HasErrorIndicator(reply) == reply.kind = "Json" /\ "error" \in DOMAIN reply.body

----------------------------------------------------------------------------
(* State *)

EmptyCache == << >>

NoApi(c) ==
    [alive |-> FALSE, developer_key |-> DeveloperKey(c), caching |-> FALSE,
     expires |-> 0, cache |-> EmptyCache, exc |-> "none"]

\* prior: the timestamp do_caching found under the request's hash (line 125),
\* -1 when it found none or the client does not cache
NoLast ==
    [client |-> 0, method |-> "", params |-> <<>>, prior |-> -1,
     called |-> FALSE, sent |-> NoCall, reply |-> NoReply,
     exc |-> "none", value |-> NoValue]

\* search_all's frame: pc is idle, loop (at the while test of line 314),
\* returned or raised.  History: pages counts the self.search calls of the
\* run, responses lists the bodies they returned, failed tells that one of
\* them raised.
IdleSa ==
    [pc |-> "idle", search_params |-> SearchDefaults, yt_response |-> NoValue,
     videos |-> <<>>, exc |-> "none", pages |-> 0, responses |-> <<>>,
     failed |-> FALSE]

\* the frame of channels_all / videos_all: pc is idle, loop (at the while
\* test of lines 339 / 358), returned or raised; out is the list channels /
\* videos.  History: requested lists the windows handed to self.channels /
\* self.videos, answers the item lists that came back, failed tells that a
\* batch request raised.
IdleBa ==
    [pc |-> "idle", method |-> "", ids |-> <<>>, part |-> "",
     start_idx |-> 0, end_idx |-> 0, out |-> <<>>, exc |-> "none",
     requested |-> <<>>, answers |-> <<>>, failed |-> FALSE]

NoDisk ==
    [dir |-> FALSE, exists |-> FALSE, parses |-> TRUE, data |-> EmptyCache]

\* no call from outside is in progress
NoFrame == [op |-> "none"]

\* YoutubeVideo.fields as the class statement leaves it, lines 396-411
YoutubeVideoFields == [video_id |-> <<"id", "videoId">>]

Init ==
    /\ now = 0
    /\ disk = NoDisk
    /\ api = [c \in Clients |-> NoApi(c)]
    /\ net = 0
    /\ last = NoLast
    /\ sa = IdleSa
    /\ ba = IdleBa
    /\ call = NoFrame
    /\ fields = YoutubeVideoFields

\* faulty variants of LoadCache: every entry of the file is loaded; none is
LoadCache_Unfiltered(d, t, expires) == IF d.exists THEN d.data ELSE EmptyCache

LoadCache_Nothing(d, t, expires) == EmptyCache

\* __init__, lines 103-112: the entries of the backing file that are not
\* expired are loaded
LoadCache(d, t, expires) ==
    IF d.exists
    THEN [h \in {x \in DOMAIN d.data :
                    NotExpired(d.data[x].time_str, t, expires)} |-> d.data[h]]
    ELSE EmptyCache

\* __init__, lines 88-113.  json.load (line 106) raises JSONDecodeError on a
\* file that is no complete JSON document: no instance comes to exist, exc
\* tells what the constructor raised.
NewApi(c, caching, caching_delay, d, t) ==
    IF caching /\ d.exists /\ ~d.parses
    THEN [NoApi(c) EXCEPT !.exc = "JSONDecodeError"]
    ELSE [alive |-> TRUE, developer_key |-> DeveloperKey(c),
          caching |-> caching,
          expires |-> IF caching THEN caching_delay ELSE 0,
          cache |-> IF caching THEN LoadCache(d, t, caching_delay)
                    ELSE EmptyCache,
          exc |-> "none"]

ConstructWith(c, caching, caching_delay) ==
    /\ ~api[c].alive
    /\ api' = [api EXCEPT ![c] = NewApi(c, caching, caching_delay, disk, now)]
    /\ disk' = IF caching THEN [disk EXCEPT !.dir = TRUE] ELSE disk
    /\ UNCHANGED <<now, net, last, sa, ba, call, fields>>

Construct(c) ==
    \E caching \in BOOLEAN, caching_delay \in 1..MaxTtl :
        ConstructWith(c, caching, caching_delay)

\* the process of client c ends; its memory is gone (the cache, the outcome
\* of its last call), the file stays
Exit(c) ==
    /\ api[c].alive
    /\ api' = [api EXCEPT ![c] = NoApi(c)]
    /\ last' = IF last.client = c THEN NoLast ELSE last
    /\ UNCHANGED <<now, disk, net, sa, ba, call, fields>>

Tick ==
    /\ now < MaxTime
    /\ now' = now + 1
    /\ UNCHANGED <<disk, api, net, last, sa, ba, call, fields>>

\* faulty variants of WriteFile: nothing is written; the cache is merged
\* into what the file holds
WriteFile_Skipped(d, cache) == d

WriteFile_Merge(d, cache) ==
    [d EXCEPT !.exists = TRUE, !.parses = TRUE, !.data = cache @@ d.data]

\* open(self._cache_file, 'w') and json.dump(self._cache, f), lines 140-141:
\* the file is rewritten as a whole
WriteFile(d, cache) ==
    [d EXCEPT !.exists = TRUE, !.parses = TRUE, !.data = cache]

\* the timestamp stored under the request's hash, -1 when there is none
PriorOf(a, method, params) ==
    LET h == request_hash(method, params)
    IN  IF a.caching /\ h \in DOMAIN a.cache
        THEN FromIsoFormat(a.cache[h].time_str)
        ELSE -1

\* one call self._request(method, params) by client c, answered with reply;
\* the transport call takes d ticks
Perform(c, method, params, reply, d) ==
    LET r == ApiRequest(api[c], method, params, reply, now, now + d)
    IN  /\ api[c].alive
        /\ now + d <= MaxTime
        /\ r.called => net < MaxCalls
        /\ ~r.called => d = 0
        /\ api' = [api EXCEPT ![c].cache = r.cache]
        /\ disk' = IF r.wrote THEN WriteFile(disk, r.cache) ELSE disk
        /\ now' = now + d
        /\ net' = IF r.called THEN net + 1 ELSE net
        /\ last' = [client |-> c, method |-> method, params |-> params,
                    prior |-> PriorOf(api[c], method, params),
                    called |-> r.called, sent |-> r.sent,
                    reply |-> IF r.called THEN reply ELSE NoReply,
                    exc |-> r.exc, value |-> r.value]

\* a success body with k items, with or without a continuation token
Body(k, token) ==
    IF token = ""
    THEN [etag |-> net + 1, items |-> Items(net + 1, k)]
    ELSE [etag |-> net + 1, items |-> Items(net + 1, k), nextPageToken |-> token]

\* the replies the provider gives in the cache model
Replies == FailureReplies \cup {[kind |-> "Json", body |-> Body(1, "")]}

QueryA == [SearchDefaults EXCEPT !.search_query = "a"]
QueryComma == [SearchDefaults EXCEPT !.search_query = "a,channelId:b"]
QueryChannel == [SearchDefaults EXCEPT !.search_query = "a", !.channel_id = "b"]

\* search(**a), line 251
Search(c, a, reply, d) == Perform(c, "search", SearchParams(a), reply, d)

SearchCall(c) ==
    /\ \E a \in {QueryA, QueryChannel}, reply \in Replies, d \in 0..1 :
          Search(c, a, reply, d)
    /\ UNCHANGED <<sa, ba, call, fields>>

Next ==
    \/ Construct(1)
    \/ Exit(1)
    \/ Tick
    \/ SearchCall(1)

Spec == Init /\ [][Next]_vars

\* a self._request call by client c has just completed
RequestBy(c) ==
    /\ api[c].alive /\ api'[c].alive
    /\ last' # last \/ net' # net
    /\ last'.client = c

----------------------------------------------------------------------------
(* Claims about the cached request, checked under Spec *)

\* the cache entries of client c that were produced by the request
\* (method, params)
EntriesOf(c, method, params) ==
    {h \in DOMAIN api[c].cache : api[c].cache[h].origin = <<method, params>>}

Age(c, h) == now - FromIsoFormat(api[c].cache[h].time_str)

\* C1: with caching enabled, a request whose (method, params) completed
\* earlier as a cache miss, issued before the ttl of the stored entry has
\* elapsed, returns the stored payload and performs no transport call.
C1_CacheRoundTrip ==
    [][\A c \in Clients :
          RequestBy(c) /\ api[c].caching =>
             \A h \in EntriesOf(c, last'.method, last'.params) :
                Age(c, h) < api[c].expires =>
                   /\ ~last'.called
                   /\ net' = net
                   /\ last'.exc = "none"
                   /\ last'.value = api[c].cache[h].response]_vars

\* a request was answered from an entry stored by an earlier miss
C1_Witness ==
    /\ last.client = 1
    /\ ~last.called
    /\ last.prior >= 0
    /\ last.exc = "none"
    /\ last.value.etag >= 1
    /\ net >= 1

\* C2: an entry written at time T is returned by a request made at time t
\* exactly when t - T < ttl; from T + ttl on the transport is called instead
\* and, when it answers, the entry is overwritten with the new payload and
\* the timestamp of the store.
C2_Expiry ==
    [][\A c \in Clients :
          RequestBy(c) /\ api[c].caching =>
             \A h \in EntriesOf(c, last'.method, last'.params) :
                LET e == api[c].cache[h]
                    returned == /\ ~last'.called
                                /\ last'.exc = "none"
                                /\ last'.value = e.response
                IN  /\ returned <=> Age(c, h) < api[c].expires
                    /\ Age(c, h) >= api[c].expires =>
                          /\ last'.called
                          /\ net' = net + 1
                          /\ last'.exc = "none" =>
                                /\ last'.value = last'.reply.body
                                /\ last'.value # e.response
                                /\ api'[c].cache[h].response = last'.value
                                /\ api'[c].cache[h].time_str = StrOfDatetime(now')
                                /\ disk'.data[h] = api'[c].cache[h]
                          /\ last'.exc # "none" =>
                                api'[c].cache = api[c].cache]_vars

\* an expired entry has been replaced by the answer of a new transport call
C2_Witness ==
    /\ last.client = 1
    /\ api[1].caching
    /\ last.called
    /\ last.exc = "none"
    /\ last.prior >= 0
    /\ \E h \in EntriesOf(1, last.method, last.params) :
          /\ api[1].cache[h].response = last.value
          /\ FromIsoFormat(api[1].cache[h].time_str) - last.prior
                >= api[1].expires

ErrorExceptions == {"YoutubeAPIException", "KeyError", "TypeError"}

\* C3: a response that carries an error indicator makes the request fail
\* (with YoutubeAPIException when the error body has a message), leaves the
\* in-memory cache and the backing file as they were, and is not replayed:
\* the same request made next calls the transport again.
C3_ErrorNotCached ==
    [][\A c \in Clients :
          RequestBy(c) /\ api[c].caching =>
             /\ (last'.called /\ HasErrorIndicator(last'.reply)) =>
                   /\ last'.exc \in ErrorExceptions
                   /\ "message" \in DOMAIN last'.reply.body.error =>
                         last'.exc = "YoutubeAPIException"
                   /\ api'[c].cache = api[c].cache
                   /\ disk' = disk
                   /\ \A h \in DOMAIN disk.data :
                         "error" \notin DOMAIN disk.data[h].response
                   /\ \A h \in DOMAIN api[c].cache :
                         "error" \notin DOMAIN api[c].cache[h].response
             /\ ( /\ last.client = c
                  /\ last.method = last'.method
                  /\ last.params = last'.params
                  /\ last.called
                  /\ HasErrorIndicator(last.reply) ) =>
                   last'.called /\ net' = net + 1]_vars

\* an error response was received while the cache held an entry, and the
\* request before it had reached the transport too
C3_Witness ==
    /\ last.client = 1
    /\ api[1].caching
    /\ api[1].cache # EmptyCache
    /\ last.called
    /\ HasErrorIndicator(last.reply)
    /\ last.exc \in ErrorExceptions
    /\ net >= 2

----------------------------------------------------------------------------
(* The fingerprint, checked under FpSpec: one caching client and requests  *)
(* that differ in insertion order or in where a comma or colon stands      *)

Reverse(seq) == [i \in DOMAIN seq |-> seq[Len(seq) + 1 - i]]

FpInit ==
    /\ now = 0
    /\ disk = [NoDisk EXCEPT !.dir = TRUE]
    /\ api = [c \in Clients |->
                 IF c = 1 THEN NewApi(1, TRUE, MaxTtl, NoDisk, 0) ELSE NoApi(c)]
    /\ net = 0
    /\ last = NoLast
    /\ sa = IdleSa
    /\ ba = IdleBa
    /\ call = NoFrame
    /\ fields = YoutubeVideoFields

FpSearchCall(c) ==
    /\ \E a \in {QueryA, QueryComma, QueryChannel}, reply \in Replies :
          Search(c, a, reply, 0)
    /\ UNCHANGED <<sa, ba, call, fields>>

\* self._request("search", params) with the parameters of QueryA inserted in
\* the opposite order
RequestCall(c) ==
    /\ \E reply \in Replies :
          Perform(c, "search", Reverse(SearchParams(QueryA)), reply, 0)
    /\ UNCHANGED <<sa, ba, call, fields>>

FpNext ==
    \/ FpSearchCall(1)
    \/ RequestCall(1)
    \/ Tick

FpSpec == FpInit /\ [][FpNext]_vars

\* the key/value pairs of a parameter dict as the transport sees them
StrPairs(params) == {<<params[i][1], Str(params[i][2])>> : i \in DOMAIN params}

\* C4: two parameter mappings with the same key/value pairs, in any
\* insertion order, have the same fingerprint, so the second request is a
\* cache hit on the entry written by the first.
C4_OrderInsensitive ==
    [][\A c \in Clients :
          RequestBy(c) /\ api[c].caching =>
             \A h \in DOMAIN api[c].cache :
                ( /\ api[c].cache[h].origin[1] = last'.method
                  /\ Pairs(api[c].cache[h].origin[2]) = Pairs(last'.params)
                  /\ Age(c, h) < api[c].expires ) =>
                   /\ request_hash(last'.method, last'.params) = h
                   /\ ~last'.called
                   /\ last'.value = api[c].cache[h].response]_vars

\* C5: a request is never answered with the payload stored for a request
\* that differs from it in operation name or in a parameter key or value.
C5_Injective ==
    [][\A c \in Clients :
          (RequestBy(c) /\ api[c].caching /\ ~last'.called) =>
             LET e == api[c].cache[request_hash(last'.method, last'.params)]
             IN  /\ e.origin[1] = last'.method
                 /\ StrPairs(e.origin[2]) = StrPairs(last'.params)]_vars

----------------------------------------------------------------------------
(* Two clients with different credentials on one backing file, checked     *)
(* under SharedSpec                                                        *)

SharedReplies ==
    { [kind |-> "ConnectionError"], [kind |-> "Json", body |-> Body(1, "")] }

SharedConstruct(c) == ConstructWith(c, TRUE, MaxTtl)

SharedSearchCall(c) ==
    /\ net < MaxSharedCalls
    /\ \E a \in {QueryA, QueryChannel}, reply \in SharedReplies, d \in 0..1 :
          Search(c, a, reply, d)
    /\ UNCHANGED <<sa, ba, call, fields>>

SharedNext ==
    \/ \E c \in Clients : SharedConstruct(c)
    \/ \E c \in Clients : Exit(c)
    \/ Tick
    \/ \E c \in Clients : SharedSearchCall(c)

SharedSpec == Init /\ [][SharedNext]_vars

\* C6: the credential is not part of the fingerprint: a request is a cache
\* hit on a live entry that a client with another credential wrote for the
\* same (method, params); and every request that reaches the transport
\* carries the caller's credential under 'key', next to the stringified
\* parameters.
C6_CredentialExcluded ==
    [][\A c \in Clients :
          RequestBy(c) =>
             /\ api[c].caching =>
                   \A h \in EntriesOf(c, last'.method, last'.params) :
                      ( /\ api[c].cache[h].writer # api[c].developer_key
                        /\ Age(c, h) < api[c].expires ) =>
                         /\ h = request_hash(last'.method, last'.params)
                         /\ ~last'.called
                         /\ net' = net
                         /\ last'.value = api[c].cache[h].response
             /\ last'.called =>
                   /\ HasKey(last'.sent.params, "key")
                   /\ Get(last'.sent.params, "key") = api[c].developer_key
                   /\ Pairs(last'.sent.params) =
                         StrPairs(last'.params)
                            \cup {<<"key", api[c].developer_key>>}
                   /\ \A h \in DOMAIN api'[c].cache :
                         api'[c].cache[h].origin = <<last'.method, last'.params>>
                            => h = request_hash(last'.method, last'.params)]_vars

\* client 2 (credential K2) was answered from an entry stored under K1
C6_Witness ==
    /\ last.client = 2
    /\ ~last.called
    /\ \E h \in EntriesOf(2, last.method, last.params) :
          /\ api[2].cache[h].writer = "K1"
          /\ api[2].cache[h].response = last.value

----------------------------------------------------------------------------
(* search_all, lines 302-325, checked under PageSpec *)

\* faulty variant of AfterPage: the token is looked up before the items are
\* added
AfterPage_BreakFirst(videos, yt_response) ==
    IF "items" \notin DOMAIN yt_response
    THEN [do |-> "raise", videos |-> videos, token |-> ""]
    ELSE IF yt_response.items = <<>>
    THEN [do |-> "return", videos |-> videos, token |-> ""]
    ELSE IF "nextPageToken" \notin DOMAIN yt_response
    THEN [do |-> "return", videos |-> videos, token |-> ""]
    ELSE [do |-> "fetch", videos |-> videos \o yt_response.items,
          token |-> yt_response.nextPageToken]

\* faulty variant of AfterPage: the loop does not test the item list
AfterPage_NoItemTest(videos, yt_response) ==
    IF "items" \notin DOMAIN yt_response
    THEN [do |-> "raise", videos |-> videos, token |-> ""]
    ELSE IF "nextPageToken" \notin DOMAIN yt_response
    THEN [do |-> "return", videos |-> videos \o yt_response.items,
          token |-> ""]
    ELSE [do |-> "fetch", videos |-> videos \o yt_response.items,
          token |-> yt_response.nextPageToken]

\* faulty variant of AfterPage: the next request carries the first token
AfterPage_StaleToken(videos, yt_response) ==
    IF "items" \notin DOMAIN yt_response
    THEN [do |-> "raise", videos |-> videos, token |-> ""]
    ELSE IF yt_response.items = <<>>
    THEN [do |-> "return", videos |-> videos, token |-> ""]
    ELSE IF "nextPageToken" \notin DOMAIN yt_response
    THEN [do |-> "return", videos |-> videos \o yt_response.items,
          token |-> ""]
    ELSE [do |-> "fetch", videos |-> videos \o yt_response.items,
          token |-> "T1"]

\* lines 314-317: the while test, videos.extend and the token lookup.
\* yt_response['items'] raises KeyError outside the try; a missing
\* 'nextPageToken' raises KeyError inside it, which breaks the loop.
AfterPage(videos, yt_response) ==
    IF "items" \notin DOMAIN yt_response
    THEN [do |-> "raise", videos |-> videos, token |-> ""]
    ELSE IF yt_response.items = <<>>
    THEN [do |-> "return", videos |-> videos, token |-> ""]
    ELSE IF "nextPageToken" \notin DOMAIN yt_response
    THEN [do |-> "return", videos |-> videos \o yt_response.items,
          token |-> ""]
    ELSE [do |-> "fetch", videos |-> videos \o yt_response.items,
          token |-> yt_response.nextPageToken]

\* lines 316-321: what an exception of self.search does inside the try
Caught(exc) == exc = "KeyError"

PageInit ==
    \E caching \in BOOLEAN :
        /\ now = 0
        /\ disk = [NoDisk EXCEPT !.dir = caching]
        /\ api = [c \in Clients |->
                     IF c = 1 THEN NewApi(1, caching, MaxTtl, NoDisk, 0)
                     ELSE NoApi(c)]
        /\ net = 0
        /\ last = NoLast
        /\ sa = IdleSa
        /\ ba = IdleBa
        /\ call = NoFrame
        /\ fields = YoutubeVideoFields

\* the replies of a paging provider: 0, 1 or 3 items, with or without a
\* continuation token; a body without 'items'; the failures
PageReplies ==
    FailureReplies
    \cup { [kind |-> "Json", body |-> Body(k, token)] :
              k \in {0, 1, 3}, token \in {"", "T1", "T2"} }
    \cup { [kind |-> "Json", body |-> [etag |-> net + 1]] }

\* lines 302-313: search_all(**a) and its first self.search, answered with
\* one of replies
SearchAllStart(c, a, replies) ==
    \E reply \in replies :
        /\ Search(c, a, reply, 0)
        /\ sa' = IF last'.exc # "none"
                 THEN [IdleSa EXCEPT !.pc = "raised", !.search_params = a,
                                     !.exc = last'.exc, !.pages = 1,
                                     !.failed = TRUE]
                 ELSE [IdleSa EXCEPT !.pc = "loop", !.search_params = a,
                                     !.yt_response = last'.value,
                                     !.pages = 1,
                                     !.responses = <<last'.value>>]

SearchAllCall(c) ==
    /\ sa.pc # "loop"
    /\ \E a \in {QueryA} : SearchAllStart(c, a, PageReplies)
    /\ UNCHANGED <<ba, call, fields>>

\* lines 314-325: one turn of the while loop, a next page being answered
\* with one of replies
SearchAllTurn(c, replies) ==
    /\ sa.pc = "loop"
    /\ LET after == AfterPage(sa.videos, sa.yt_response)
           params == [sa.search_params EXCEPT !.page_token = after.token]
       IN  CASE after.do = "raise" ->
                  /\ sa' = [sa EXCEPT !.pc = "raised", !.exc = "KeyError"]
                  /\ UNCHANGED <<now, disk, api, net, last>>
             [] after.do = "return" ->
                  /\ sa' = [sa EXCEPT !.pc = "returned",
                                      !.videos = after.videos]
                  /\ UNCHANGED <<now, disk, api, net, last>>
             [] after.do = "fetch" ->
                  /\ sa.pages < MaxPages
                  /\ \E reply \in replies :
                        /\ Search(c, params, reply, 0)
                        /\ sa' =
                             IF last'.exc = "none"
                             THEN [sa EXCEPT
                                     !.search_params = params,
                                     !.videos = after.videos,
                                     !.yt_response = last'.value,
                                     !.pages = @ + 1,
                                     !.responses = Append(@, last'.value)]
                             ELSE IF Caught(last'.exc)
                             THEN [sa EXCEPT
                                     !.pc = "returned",
                                     !.search_params = params,
                                     !.videos = after.videos,
                                     !.pages = @ + 1, !.failed = TRUE]
                             ELSE [sa EXCEPT
                                     !.pc = "raised", !.exc = last'.exc,
                                     !.search_params = params,
                                     !.videos = after.videos,
                                     !.pages = @ + 1, !.failed = TRUE]

SearchAllIter(c) ==
    /\ SearchAllTurn(c, PageReplies)
    /\ UNCHANGED <<ba, call, fields>>

PageNext ==
    \/ SearchAllCall(1)
    \/ SearchAllIter(1)

PageSpec == PageInit /\ [][PageNext]_vars

HasItems(body) == "items" \in DOMAIN body
HasToken(body) == "nextPageToken" \in DOMAIN body

\* C7: when the first response of a search_all run has an empty item list,
\* with or without a continuation token, the run makes that one page request
\* only and returns the empty list.
C7_EmptyFirstPage ==
    ( /\ Len(sa.responses) >= 1
      /\ HasItems(sa.responses[1])
      /\ sa.responses[1].items = <<>> ) =>
        /\ sa.pages = 1
        /\ sa.videos = <<>>
        /\ sa.pc \in {"loop", "returned"}
        /\ ~sa.failed

\* an empty first page that carried a continuation token, and the run has
\* returned
C7_Witness ==
    /\ sa.pc = "returned"
    /\ sa.pages = 1
    /\ Len(sa.responses) = 1
    /\ HasItems(sa.responses[1])
    /\ sa.responses[1].items = <<>>
    /\ HasToken(sa.responses[1])
    /\ sa.videos = <<>>

\* the run got two pages of 3 items with a token each, then a page that has
\* items and no token
TwoPagesThenLast ==
    /\ Len(sa.responses) = 3
    /\ \A i \in 1..3 : HasItems(sa.responses[i])
    /\ \A i \in 1..2 : Len(sa.responses[i].items) = 3 /\ HasToken(sa.responses[i])
    /\ sa.responses[3].items # <<>>
    /\ ~HasToken(sa.responses[3])

\* C8 as claimed: two pages of 3 items with a token each, then a page with
\* items and no token: 6 items are returned after exactly 3 page requests.
C8_SixItems ==
    (sa.pc = "returned" /\ TwoPagesThenLast) =>
        Len(sa.videos) = 6 /\ sa.pages = 3

\* C8 as amended: the run returns, after exactly 3 page requests, the 6 items
\* of the first two pages followed by the items of the third page.
C8_AllThreePages ==
    TwoPagesThenLast =>
        /\ sa.pages = 3
        /\ sa.pc \in {"loop", "returned"}
        /\ ~sa.failed
        /\ sa.pc = "returned" =>
              /\ sa.videos = sa.responses[1].items \o sa.responses[2].items
                                \o sa.responses[3].items
              /\ Len(sa.videos) = 6 + Len(sa.responses[3].items)

C8_Witness ==
    /\ sa.pc = "returned"
    /\ TwoPagesThenLast
    /\ Len(sa.videos) = 9
    /\ sa.pages = 3

\* C10 (search_all): when a page request of the run fails, the run fails
\* with that error: it does not return normally.
C10_FailureAborts ==
    sa.failed => sa.pc = "raised" /\ sa.exc = last.exc

----------------------------------------------------------------------------
(* channels_all, lines 335-344, and videos_all, lines 354-363, checked     *)
(* under BatchSpec                                                         *)

Min(a, b) == IF a <= b THEN a ELSE b

\* seq[start:stop] for 0 <= start <= stop
Slice(seq, start, stop) ==
    SubSeq(seq, Min(start, Len(seq)) + 1, Min(stop, Len(seq)))

\* faulty variant of Advance: the windows overlap by one id
Advance_Overlap(idx) == idx + max_results - 1

\* start_idx += max_results, end_idx += max_results
Advance(idx) == idx + max_results

Ids(n) == [i \in 1..n |-> "id" \o ToString(i)]

BatchInit ==
    \E caching \in BOOLEAN :
        /\ now = 0
        /\ disk = [NoDisk EXCEPT !.dir = caching]
        /\ api = [c \in Clients |->
                     IF c = 1 THEN NewApi(1, caching, MaxTtl, NoDisk, 0)
                     ELSE NoApi(c)]
        /\ net = 0
        /\ last = NoLast
        /\ sa = IdleSa
        /\ ba = IdleBa
        /\ call = NoFrame
        /\ fields = YoutubeVideoFields

\* the replies to a batch request: an item for every id of the window or
\* for its first id only; a body without 'items'; a transport failure; an
\* upstream error
BatchReplies(window) ==
    { [kind |-> "Json",
       body |-> [etag |-> net + 1,
                 items |-> [i \in 1..k |-> [id |-> window[i]]]]] :
         k \in {Min(1, Len(window)), Len(window)} }
    \cup { [kind |-> "Json", body |-> [etag |-> net + 1]],
           [kind |-> "ConnectionError"],
           [kind |-> "Json", body |-> [error |-> [code |-> "403"]]] }

\* lines 335-338 / 354-357: channels_all(ids, part) / videos_all(ids, part)
BatchStart(method, ids, part) ==
    ba' = [IdleBa EXCEPT !.pc = "loop", !.method = method, !.ids = ids,
                         !.part = part,
                         !.start_idx = 0, !.end_idx = max_results]

BatchCall(c) ==
    /\ ba.pc = "idle"
    /\ api[c].alive
    /\ \E method \in {"channels", "videos"}, n \in 0..MaxIds :
          BatchStart(method, Ids(n), "snippet,contentDetails")
    /\ UNCHANGED <<now, disk, api, net, last, sa, call, fields>>

\* channel_ids[start_idx:end_idx] / video_ids[start_idx:end_idx], the
\* window of the turn
Window == Slice(ba.ids, ba.start_idx, ba.end_idx)

\* lines 339-344 / 358-363: one turn of the while loop; reply answers the
\* batch request for the window (none is made for an empty window)
BatchTurn(c, reply) ==
    /\ ba.pc = "loop"
    /\ LET window == Window
           params == IF ba.method = "channels"
                     THEN ChannelsParams(window, ba.part)
                     ELSE VideosParams(window, ba.part)
       IN  IF Len(window) = 0
           THEN /\ ba' = [ba EXCEPT !.pc = "returned"]
                /\ UNCHANGED <<now, disk, api, net, last>>
           ELSE    /\ Perform(c, ba.method, params, reply, 0)
                   /\ ba' =
                        IF last'.exc # "none"
                        THEN [ba EXCEPT !.pc = "raised", !.exc = last'.exc,
                                        !.requested = Append(@, window),
                                        !.failed = TRUE]
                        ELSE IF "items" \notin DOMAIN last'.value
                        THEN [ba EXCEPT !.pc = "raised", !.exc = "KeyError",
                                        !.requested = Append(@, window)]
                        ELSE [ba EXCEPT
                                !.out = @ \o last'.value.items,
                                !.start_idx = Advance(@),
                                !.end_idx = Advance(@),
                                !.requested = Append(@, window),
                                !.answers = Append(@, last'.value.items)]

BatchIter(c) ==
    /\ \E reply \in BatchReplies(Window) : BatchTurn(c, reply)
    /\ UNCHANGED <<sa, call, fields>>

BatchNext ==
    \/ BatchCall(1)
    \/ BatchIter(1)

BatchSpec == BatchInit /\ [][BatchNext]_vars

RECURSIVE FlattenTo(_, _)
FlattenTo(seqs, n) ==
    IF n = 0 THEN <<>> ELSE FlattenTo(seqs, n - 1) \o seqs[n]

\* the concatenation of a sequence of sequences
Flatten(seqs) == FlattenTo(seqs, Len(seqs))

\* ceil(n / max_results)
Batches(n) == (n + max_results - 1) \div max_results

BatchWindows ==
    LET n == Len(ba.ids)
        k == Len(ba.requested)
    IN  /\ k <= Batches(n)
        /\ \A i \in 1..k :
              /\ ba.requested[i] =
                    SubSeq(ba.ids, max_results * (i - 1) + 1,
                           Min(max_results * i, n))
              /\ Len(ba.requested[i]) \in 1..max_results
              /\ i < Batches(n) => Len(ba.requested[i]) = max_results
        /\ (k >= 1 /\ last.called) =>
              Get(last.sent.params, "id") = Join(",", ba.requested[k])
        /\ ba.pc = "loop" =>
              /\ ba.out = Flatten(ba.answers)
              /\ ba.start_idx = max_results * k
              /\ ba.end_idx = ba.start_idx + max_results
        /\ ba.pc = "returned" =>
              /\ k = Batches(n)
              /\ Flatten(ba.requested) = ba.ids
              /\ Len(ba.answers) = k
              /\ ba.out = Flatten(ba.answers)

\* C9: channels_all and videos_all on n ids make exactly ceil(n/50) batch
\* requests (none for n = 0), for the consecutive windows of 50 ids whose
\* concatenation is the input (only the last may be shorter); the result is
\* the concatenation of the responses' items in batch order; the loop
\* terminates: every turn ends the call or adds a request and moves the
\* window by 50, there are never more than ceil(n/50) requests, and a
\* running loop is never blocked (its window is empty, so that it returns,
\* or its client can make the next request).
C9_Batching ==
    /\ BatchWindows
    /\ ba.pc = "loop" =>
          \/ ba.start_idx >= Len(ba.ids)
          \/ api[1].alive /\ net < MaxCalls

\* 125 ids were fetched in batches of 50, 50 and 25
C9_Witness ==
    /\ ba.pc = "returned"
    /\ Len(ba.ids) = 125
    /\ [i \in 1..Len(ba.requested) |-> Len(ba.requested[i])] = <<50, 50, 25>>
    /\ Len(ba.out) = 125
    /\ net = 3

----------------------------------------------------------------------------
(* Persistence of the cache, checked under Spec *)

\* the age, at the clock t, of the entry the file holds under h
FileAge(h, t) == t - FromIsoFormat(disk.data[h].time_str)

\* client c has just returned from a miss that stored its answer
StoredBy(c) ==
    /\ RequestBy(c)
    /\ api[c].caching
    /\ last'.called
    /\ last'.exc = "none"

\* client c has just been constructed with caching enabled
ConstructedCaching(c) == ~api[c].alive /\ api'[c].alive /\ api'[c].caching

\* C11: when a cached request returns after a miss, the backing file holds
\* exactly the client's whole in-memory cache, the entry just stored with
\* its timestamp included; so a process that ends between two requests
\* leaves every entry it held on the file, and a client constructed on that
\* file loads every entry that is within the ttl.
C11_FlushOnMiss ==
    [][\A c \in Clients :
          /\ StoredBy(c) =>
                LET h == request_hash(last'.method, last'.params)
                IN  /\ disk'.exists
                    /\ disk'.parses
                    /\ disk'.data = api'[c].cache
                    /\ h \in DOMAIN disk'.data
                    /\ disk'.data[h].time_str = StrOfDatetime(now')
                    /\ disk'.data[h].response = last'.value
          /\ (api[c].alive /\ api[c].caching /\ ~api'[c].alive) =>
                \A h \in DOMAIN api[c].cache :
                   /\ h \in DOMAIN disk'.data
                   /\ disk'.data[h] = api[c].cache[h]
          /\ ConstructedCaching(c) =>
                \A h \in DOMAIN disk.data :
                   FileAge(h, now) < api'[c].expires =>
                      /\ h \in DOMAIN api'[c].cache
                      /\ api'[c].cache[h] = disk.data[h]]_vars

\* a client constructed after its predecessor ended holds the entries the
\* predecessor's misses stored
C11_Witness ==
    /\ api[1].alive
    /\ api[1].caching
    /\ last = NoLast
    /\ net >= 2
    /\ Cardinality(DOMAIN api[1].cache) >= 2
    /\ api[1].cache = disk.data

\* C12: construction with caching enabled yields exactly the entries of the
\* backing file with now - timestamp < ttl, timestamp and payload unchanged,
\* the empty cache when there is no file; the file is not modified.
C12_LoadLiveEntries ==
    [][\A c \in Clients :
          ConstructedCaching(c) =>
             /\ DOMAIN api'[c].cache =
                   {h \in DOMAIN disk.data : FileAge(h, now) < api'[c].expires}
             /\ \A h \in DOMAIN api'[c].cache :
                   /\ api'[c].cache[h].time_str = disk.data[h].time_str
                   /\ api'[c].cache[h].response = disk.data[h].response
             /\ ~disk.exists => api'[c].cache = EmptyCache
             /\ disk'.exists = disk.exists
             /\ disk'.parses = disk.parses
             /\ disk'.data = disk.data]_vars

\* a client was constructed on a file that holds an entry within the ttl,
\* which it loaded, and an older one, which it did not
C12_Witness ==
    /\ api[1].alive
    /\ api[1].caching
    /\ last = NoLast
    /\ \E h \in DOMAIN disk.data : h \notin DOMAIN api[1].cache
    /\ \E h \in DOMAIN disk.data :
          h \in DOMAIN api[1].cache /\ api[1].cache[h] = disk.data[h]

\* C20: while a client lives no operation removes an entry from its cache;
\* an entry changes only when a miss for its own fingerprint, made when it
\* is expired, overwrites it wholesale; the expired entries are written back
\* to the file by the puts of other requests; and a request never returns
\* the payload of an entry that is expired.
C20_LazyExpiry ==
    [][\A c \in Clients :
          (api[c].alive /\ api'[c].alive /\ api[c].caching) =>
             /\ DOMAIN api[c].cache \subseteq DOMAIN api'[c].cache
             /\ \A h \in DOMAIN api[c].cache :
                   api'[c].cache[h] # api[c].cache[h] =>
                      /\ StoredBy(c)
                      /\ h = request_hash(last'.method, last'.params)
                      /\ Age(c, h) >= api[c].expires
                      /\ api'[c].cache[h].response = last'.value
                      /\ api'[c].cache[h].time_str = StrOfDatetime(now')
             /\ StoredBy(c) =>
                   \A h \in DOMAIN api[c].cache :
                      ( /\ Age(c, h) >= api[c].expires
                        /\ h # request_hash(last'.method, last'.params) ) =>
                         /\ h \in DOMAIN disk'.data
                         /\ disk'.data[h] = api[c].cache[h]
             /\ (RequestBy(c) /\ last'.exc = "none") =>
                   \A h \in DOMAIN api[c].cache :
                      last'.value = api[c].cache[h].response =>
                         Age(c, h) < api[c].expires]_vars

\* an entry that had expired was written back to the file by the put of
\* another request
C20_Witness ==
    /\ api[1].alive
    /\ api[1].caching
    /\ last.client = 1
    /\ last.called
    /\ last.exc = "none"
    /\ LET new == request_hash(last.method, last.params)
       IN  \E h \in DOMAIN api[1].cache :
              /\ h # new
              /\ FromIsoFormat(api[1].cache[new].time_str)
                    - FromIsoFormat(api[1].cache[h].time_str) >= api[1].expires
              /\ h \in DOMAIN disk.data
              /\ disk.data[h] = api[1].cache[h]

----------------------------------------------------------------------------
(* A file that cannot be parsed, checked under CrashSpec: the cache model   *)
(* with a process that is killed while it rewrites the file                 *)

\* the content of the file after open(self._cache_file, 'w') has truncated
\* it and before json.dump has written the whole document (lines 140-141)
TornFile(d) ==
    [d EXCEPT !.exists = TRUE, !.parses = FALSE, !.data = EmptyCache]

\* the process of client c is killed inside the rewrite of a miss
KilledInDump(c) ==
    /\ api[c].alive
    /\ net < MaxCalls
    /\ \E a \in {QueryA, QueryChannel} :
          ApiRequest(api[c], "search", SearchParams(a),
                     [kind |-> "Json", body |-> Body(1, "")], now, now).wrote
    /\ disk' = TornFile(disk)
    /\ api' = [api EXCEPT ![c] = NoApi(c)]
    /\ net' = net + 1
    /\ last' = NoLast
    /\ UNCHANGED <<now, sa, ba, call, fields>>

CrashNext ==
    \/ Construct(1)
    \/ Exit(1)
    \/ Tick
    \/ SearchCall(1)
    \/ KilledInDump(1)

CrashSpec == Init /\ [][CrashNext]_vars

\* C13: a construction made while the cache file exists and cannot be
\* parsed yields a client, whose cache is empty when it caches.
C13_UnparseableFile ==
    [][\A c \in Clients :
          ( /\ ~api[c].alive
            /\ api'[c] # api[c]
            /\ disk.exists
            /\ ~disk.parses ) =>
             /\ api'[c].alive
             /\ api'[c].caching => api'[c].cache = EmptyCache]_vars

----------------------------------------------------------------------------
(* The query a call puts on the wire, checked under ParamSpec: direct       *)
(* calls of search, channels and videos with and without their optional     *)
(* arguments                                                                *)

SearchArgs ==
    { [SearchDefaults EXCEPT !.search_query = q, !.page_token = t,
                             !.max_results = m, !.duration = du] :
         q \in {"", "py test"}, t \in {"", "ABC"},
         m \in {DEFAULT_MAX_RESULTS, 5}, du \in {"", "any"} }

\* the arguments of channels (default part 'snippet', line 254) and of
\* videos (default part 'snippet,contentDetails', line 268)
IdArgs(part) ==
    { [ids |-> i, max_results |-> m, page_token |-> t, part |-> part] :
         i \in {<<"c1">>, <<"c1", "c2">>},
         m \in {DEFAULT_MAX_RESULTS, 5}, t \in {"", "ABC"} }

ParamReplies ==
    { [kind |-> "ConnectionError"], [kind |-> "Json", body |-> Body(1, "")] }

\* search(**a) called from outside
ApiSearch(c) ==
    /\ net < MaxParamCalls
    /\ \E a \in SearchArgs, reply \in ParamReplies :
          /\ Search(c, a, reply, 0)
          /\ call' = [op |-> "search", args |-> a]
    /\ UNCHANGED <<sa, ba, fields>>

\* channels(ids, max_results, page_token, part), lines 253-265
Channels(c, a, reply) ==
    Perform(c, "channels",
            IdsParams(a.ids, a.max_results, a.page_token, a.part), reply, 0)

\* videos(ids, max_results, page_token, part), lines 267-279
Videos(c, a, reply) ==
    Perform(c, "videos",
            IdsParams(a.ids, a.max_results, a.page_token, a.part), reply, 0)

ApiChannels(c) ==
    /\ net < MaxParamCalls
    /\ \E a \in IdArgs("snippet"), reply \in ParamReplies :
          /\ Channels(c, a, reply)
          /\ call' = [op |-> "channels", args |-> a]
    /\ UNCHANGED <<sa, ba, fields>>

ApiVideos(c) ==
    /\ net < MaxParamCalls
    /\ \E a \in IdArgs("snippet,contentDetails"), reply \in ParamReplies :
          /\ Videos(c, a, reply)
          /\ call' = [op |-> "videos", args |-> a]
    /\ UNCHANGED <<sa, ba, fields>>

ParamNext ==
    \/ ApiSearch(1)
    \/ ApiChannels(1)
    \/ ApiVideos(1)

ParamSpec == PageInit /\ [][ParamNext]_vars

\* the query parameter k when the argument v was supplied
Given(k, v) == IF v = "" THEN {} ELSE {<<k, v>>}

\* the query parameters of the call f as the interface describes them
ExpectedQuery(f, key) ==
    LET a == f.args
    IN  IF f.op = "search"
        THEN { <<"part", a.part>>, <<"order", a.order>>,
               <<"maxResults", ToString(a.max_results)>>,
               <<"type", Join(",", a.result_type)>>, <<"key", key>> }
             \cup Given("q", a.search_query)
             \cup Given("channelId", a.channel_id)
             \cup Given("publishedBefore",
                        IF a.published_before = "" THEN ""
                        ELSE Rfc3339(a.published_before))
             \cup Given("publishedAfter",
                        IF a.published_after = "" THEN ""
                        ELSE Rfc3339(a.published_after))
             \cup Given("relevanceLanguage", a.relevance_language)
             \cup Given("pageToken", a.page_token)
             \cup Given("eventType", a.event_type)
             \cup Given("videoDuration", a.duration)
             \cup Given("videoCaption", a.caption)
             \cup Given("videoEmbeddable", a.embeddable)
             \cup Given("videoDefinition", a.definition)
             \cup Given("relatedToVideoId", a.related_to_video_id)
        ELSE { <<"part", a.part>>,
               <<"maxResults", ToString(a.max_results)>>,
               <<"id", Join(",", a.ids)>>, <<"key", key>> }
             \cup Given("pageToken", a.page_token)

C15_DefaultDuration ==
    [][\A c \in Clients :
          ( /\ RequestBy(c)
            /\ last'.called
            /\ call'.op = "search"
            /\ call'.args = [SearchDefaults EXCEPT !.search_query = "py test"]
          ) =>
             Pairs(last'.sent.params) =
                { <<"part", "snippet">>, <<"maxResults", "50">>,
                  <<"q", "py test">>, <<"order", "date">>,
                  <<"type", "video">>, <<"videoDuration", "any">>,
                  <<"key", api[c].developer_key>> }]_vars

----------------------------------------------------------------------------
(* The page requests of search_all, checked under PageSpec *)

PageTokenPairs(params) == {p \in Pairs(params) : p[1] = "pageToken"}

\* the item lists of a sequence of responses
ItemLists(responses) == [i \in DOMAIN responses |-> responses[i].items]

\* C17: the first page request of a search_all run carries no continuation
\* token; every following request carries the nextPageToken of the response
\* just before it and otherwise the parameters of the request before it; a
\* response with an empty item list or without nextPageToken ends the loop
\* with no further request; the result is the concatenation, in fetch
\* order, of the item lists of the fetched pages.
C17_Pagination ==
    [][/\ (sa.pc # "loop" /\ sa'.pages = 1 /\ sa' # sa) =>
             /\ last'.method = "search"
             /\ PageTokenPairs(last'.params) = {}
       /\ (sa.pc = "loop" /\ sa'.pages = sa.pages + 1) =>
             /\ sa.yt_response = sa.responses[Len(sa.responses)]
             /\ HasItems(sa.yt_response)
             /\ sa.yt_response.items # <<>>
             /\ HasToken(sa.yt_response)
             /\ last'.method = "search"
             /\ Pairs(last'.params) =
                   (Pairs(last.params) \ PageTokenPairs(last.params))
                      \cup {<<"pageToken",
                              PyStr(sa.yt_response.nextPageToken)>>}
       /\ ( /\ sa.pc = "loop"
            /\ HasItems(sa.yt_response)
            /\ sa.yt_response.items = <<>> \/ ~HasToken(sa.yt_response) ) =>
             /\ sa'.pc = "returned"
             /\ sa'.pages = sa.pages
             /\ net' = net
             /\ last' = last
       /\ \A i \in 1..(Len(sa'.responses) - 1) :
             /\ HasItems(sa'.responses[i])
             /\ sa'.responses[i].items # <<>>
             /\ HasToken(sa'.responses[i])
       /\ sa'.pc = "returned" =>
             sa'.videos = Flatten(ItemLists(sa'.responses))]_vars

\* a run fetched three pages with the tokens T1 and T2 and stopped on the
\* third, whose item list is empty although it names a next page
C17_Witness ==
    /\ sa.pc = "returned"
    /\ ~sa.failed
    /\ sa.pages = 3
    /\ Len(sa.responses) = 3
    /\ HasToken(sa.responses[1]) /\ sa.responses[1].nextPageToken = "T1"
    /\ HasToken(sa.responses[2]) /\ sa.responses[2].nextPageToken = "T2"
    /\ Get(last.params, "pageToken") = PyStr("T2")
    /\ sa.responses[3].items = <<>>
    /\ HasToken(sa.responses[3])
    /\ Len(sa.videos) = 6

----------------------------------------------------------------------------
(* Two instances writing one file, checked under SharedSpec *)

\* C19: after a put the file equals the in-memory cache of the instance that
\* wrote, whatever the file held before; an instance's cache holds only
\* what it loaded at construction and what it stored itself, and a hit
\* returns an entry of that cache.
C19_LastWriterWins ==
    [][\A c \in Clients :
          /\ StoredBy(c) =>
                /\ disk'.data = api'[c].cache
                /\ \A h \in DOMAIN disk.data :
                      h \notin DOMAIN api'[c].cache => h \notin DOMAIN disk'.data
          /\ ConstructedCaching(c) =>
                \A h \in DOMAIN api'[c].cache :
                   h \in DOMAIN disk.data /\ api'[c].cache[h] = disk.data[h]
          /\ (api[c].alive /\ api'[c].alive) =>
                \A h \in DOMAIN api'[c].cache :
                   \/ /\ h \in DOMAIN api[c].cache
                      /\ api'[c].cache[h] = api[c].cache[h]
                   \/ /\ StoredBy(c)
                      /\ h = request_hash(last'.method, last'.params)
                      /\ api'[c].cache[h].writer = api[c].developer_key
                      /\ api'[c].cache[h].response = last'.reply.body
          /\ (RequestBy(c) /\ api[c].caching /\ ~last'.called) =>
                \E h \in DOMAIN api[c].cache :
                   last'.value = api[c].cache[h].response]_vars

\* a lost update: client 1 has just rewritten the file, and the entry that
\* client 2 stored after client 1 was constructed is no longer on it
C19_Witness ==
    /\ api[1].alive
    /\ api[2].alive
    /\ last.client = 1
    /\ last.called
    /\ last.exc = "none"
    /\ disk.data = api[1].cache
    /\ \E h \in DOMAIN api[2].cache :
          /\ api[2].cache[h].writer = "K2"
          /\ h \notin DOMAIN disk.data
          /\ h \notin DOMAIN api[1].cache

----------------------------------------------------------------------------
(* Resuming an aborted search_all from the cache, checked under ResumeSpec: *)
(* a caching client runs the search, the run is cut short and the process   *)
(* ends, and a new client on the same directory repeats the search          *)

\* the continuation tokens of one listing, by the page they lead to: the
\* provider names each further page of a listing by a token of its own
PageTokens == <<"", "T2", "T3", "T4", "T5", "T6">>

\* the replies of the provider to the request for page p of the listing:
\* the failures, and a page of one item that is the last one or names the
\* page after it
ResumeReplies(p) ==
    { [kind |-> "ConnectionError"],
      [kind |-> "Json", body |-> [error |-> [message |-> "quotaExceeded"]]],
      [kind |-> "Json", body |-> [error |-> [code |-> "403"]]] }
    \cup { [kind |-> "Json", body |-> Body(1, token)] :
              token \in {"", PageTokens[p + 1]} }

\* the smallest element of a non-empty set of numbers
Least(S) == CHOOSE x \in S : \A y \in S : x <= y

\* the clock at the store of the oldest entry of a cache, t for an empty one
OldestStore(cache, t) ==
    IF DOMAIN cache = {} THEN t
    ELSE Least({FromIsoFormat(cache[h].time_str) : h \in DOMAIN cache})

\* search_all(search_query='a'); it is the repeat when the caller holds the
\* history of a run that was cut short
ResumeCall(c) ==
    /\ sa.pc # "loop"
    /\ SearchAllStart(c, QueryA, ResumeReplies(1))
    /\ call' = IF call.op = "search_all"
               THEN [call EXCEPT !.op = "repeat"]
               ELSE NoFrame
    /\ UNCHANGED <<ba, fields>>

ResumeIter(c) ==
    /\ SearchAllTurn(c, ResumeReplies(sa.pages + 1))
    /\ UNCHANGED <<ba, call, fields>>

\* the run of client c is over before its end (a page request failed, or
\* the process dies inside the loop) and the process ends.  The caller
\* keeps, as history: the pages the run had fetched, whether a page request
\* failed, the number of transport calls so far and the clock at the store
\* of the oldest entry.
Abort(c) ==
    /\ api[c].alive
    /\ sa.pc = "loop" \/ sa.failed
    /\ call' = [op |-> "search_all", fetched |-> sa.responses,
                failed |-> sa.failed, net |-> net,
                since |-> OldestStore(api[c].cache, now)]
    /\ api' = [api EXCEPT ![c] = NoApi(c)]
    /\ last' = NoLast
    /\ sa' = IdleSa
    /\ UNCHANGED <<now, disk, net, ba, fields>>

ResumeNext ==
    \/ SharedConstruct(1)
    \/ Tick
    \/ ResumeCall(1)
    \/ ResumeIter(1)
    \/ Abort(1)

ResumeSpec == Init /\ [][ResumeNext]_vars

\* a new client repeats the search that was cut short, within the ttl of
\* the entries the first run left
Resumed ==
    /\ call.op = "repeat"
    /\ api[1].alive
    /\ now - call.since < api[1].expires

\* C18: a new client on the same cache directory that repeats, within the
\* ttl, a search_all that was cut short on page k makes no transport call
\* for the pages 1..k-1, which it gets as the first run got them; when the
\* first run failed on page k, the request for page k is its first transport
\* call.
C18_Resume ==
    Resumed =>
       LET fetched == call.fetched
       IN  /\ \A i \in 1..Min(Len(sa.responses), Len(fetched)) :
                 sa.responses[i] = fetched[i]
           /\ sa.pages <= Len(fetched) => net = call.net
           /\ net > call.net => sa.pages > Len(fetched)
           /\ (call.failed /\ sa.pages > Len(fetched)) => net > call.net

\* the first run fetched page 1 and failed on page 2; the new client got
\* page 1 from the cache and its request for page 2 went to the transport
C18_Witness ==
    /\ Resumed
    /\ call.failed
    /\ Len(call.fetched) = 1
    /\ sa.pages = 2
    /\ Len(sa.responses) = 2
    /\ sa.responses[1] = call.fetched[1]
    /\ last.called
    /\ net = call.net + 1

----------------------------------------------------------------------------
(* YoutubeFinder.search_videos, lines 469-530, and the domain objects it    *)
(* builds, checked under FinderSpec.  The frame call holds content_details, *)
(* pc (search: inside search_all; details: inside videos_all; returned;     *)
(* raised), the returned list videos and the exception exc.                 *)

\* faulty variant of PartFor: the search asks for the snippet part always
PartFor_Snippet(content_details) == "snippet"

\* part = "id" if content_details else "snippet", line 511
PartFor(content_details) == IF content_details THEN "id" ELSE "snippet"

\* the items of the n-th transport reply when it answers a /search: k video
\* results
SearchItems(n, k) ==
    [i \in 1..k |->
        [kind |-> "youtube#searchResult", etag |-> n,
         id |-> [kind |-> "youtube#video",
                 videoId |-> "v" \o ToString(n) \o ToString(i)]]]

\* the replies to a /search request of the finder: 0, 1 or 2 video results
\* with or without a continuation token; one item that has neither 'kind'
\* nor 'id'; a transport failure
FinderSearchReplies ==
    { [kind |-> "Json",
       body |-> IF token = ""
                THEN [etag |-> net + 1, items |-> SearchItems(net + 1, k)]
                ELSE [etag |-> net + 1, items |-> SearchItems(net + 1, k),
                      nextPageToken |-> token]] :
         k \in {0, 1, 2}, token \in {"", "T1"} }
    \cup { [kind |-> "Json",
            body |-> [etag |-> net + 1, items |-> <<[etag |-> net + 1]>>]],
           [kind |-> "ConnectionError"] }

\* the replies to a /videos request for the ids of window: a video resource
\* for every id or for the first one only; a transport failure
FinderVideoReplies(window) ==
    { [kind |-> "Json",
       body |-> [etag |-> net + 1,
                 items |-> [i \in 1..k |->
                              [kind |-> "youtube#video", etag |-> net + 1,
                               id |-> window[i]]]]] :
         k \in {Min(1, Len(window)), Len(window)} }
    \cup { [kind |-> "ConnectionError"] }

\* v['id']['videoId'] raises KeyError, line 524
LacksVideoId(v) ==
    \/ "id" \notin DOMAIN v
    \/ "videoId" \notin DOMAIN v.id

\* video_ids = [v['id']['videoId'] for v in response_items], line 524
VideoIds(response_items) ==
    [i \in 1..Len(response_items) |-> response_items[i].id.videoId]

\* ResponseAndapter.__init__, line 371: the instance keeps the item
YoutubeVideo(raw) == [raw |-> raw]

\* the number of items of the list that come before its first item without
\* 'kind' (self._raw['kind'] raises KeyError there, line 416)
Built(items) ==
    IF \A i \in 1..Len(items) : "kind" \in DOMAIN items[i]
    THEN Len(items)
    ELSE (CHOOSE i \in 1..Len(items) :
             /\ "kind" \notin DOMAIN items[i]
             /\ \A j \in 1..(i - 1) : "kind" \in DOMAIN items[j]) - 1

\* faulty variant of FieldsAfter: the assignment does not reach the map the
\* class holds
FieldsAfter_Unshared(f, items, n) == f

\* YoutubeVideo.__init__, lines 413-417, run for the first n items: an item
\* of kind youtube#video assigns the class attribute
FieldsAfter(f, items, n) ==
    IF \E i \in 1..n : items[i].kind = "youtube#video"
    THEN [f EXCEPT !.video_id = <<"id">>]
    ELSE f

\* videos = [YoutubeVideo(v) for v in response_items]; return videos,
\* lines 529-530
Wrap(response_items) ==
    LET n == Built(response_items)
    IN  /\ fields' = FieldsAfter(fields, response_items, n)
        /\ call' = IF n = Len(response_items)
                   THEN [call EXCEPT
                           !.pc = "returned",
                           !.videos = [i \in 1..n |->
                                          YoutubeVideo(response_items[i])]]
                   ELSE [call EXCEPT !.pc = "raised", !.exc = "KeyError"]

InFinder(pc) == call.op = "search_videos" /\ call.pc = pc

\* search_videos(content_details, search_query='a'), lines 511-522, up to
\* the first page request of search_all
SearchVideos(c) ==
    /\ call.op = "search_videos" => call.pc \in {"returned", "raised"}
    /\ \E content_details \in BOOLEAN :
          /\ SearchAllStart(c, [QueryA EXCEPT !.part = PartFor(content_details)],
                            FinderSearchReplies)
          /\ call' = [op |-> "search_videos",
                      content_details |-> content_details,
                      pc |-> "search", videos |-> <<>>, exc |-> "none"]
    /\ ba' = IdleBa
    /\ UNCHANGED fields

\* search_all's loop inside search_videos, line 512
FinderSearchIter(c) ==
    /\ InFinder("search")
    /\ SearchAllTurn(c, FinderSearchReplies)
    /\ UNCHANGED <<ba, call, fields>>

\* lines 523-530, search_all being over: its exception propagates; with
\* content_details the ids are collected and videos_all starts; without,
\* the found items are wrapped and returned
Found(c) ==
    /\ InFinder("search")
    /\ sa.pc \in {"returned", "raised"}
    /\ IF sa.pc = "raised"
       THEN /\ call' = [call EXCEPT !.pc = "raised", !.exc = sa.exc]
            /\ UNCHANGED <<ba, fields>>
       ELSE IF ~call.content_details
       THEN /\ Wrap(sa.videos)
            /\ UNCHANGED ba
       ELSE IF \E i \in 1..Len(sa.videos) : LacksVideoId(sa.videos[i])
       THEN /\ call' = [call EXCEPT !.pc = "raised", !.exc = "KeyError"]
            /\ UNCHANGED <<ba, fields>>
       ELSE /\ BatchStart("videos", VideoIds(sa.videos),
                          "snippet,contentDetails")
            /\ call' = [call EXCEPT !.pc = "details"]
            /\ UNCHANGED fields
    /\ UNCHANGED <<now, disk, api, net, last, sa>>

\* videos_all's loop inside search_videos, line 527
FinderDetailsIter(c) ==
    /\ InFinder("details")
    /\ \E reply \in FinderVideoReplies(Window) : BatchTurn(c, reply)
    /\ UNCHANGED <<sa, call, fields>>

\* lines 527-530, videos_all being over: its exception propagates, or its
\* items are wrapped and returned
Detailed(c) ==
    /\ InFinder("details")
    /\ ba.pc \in {"returned", "raised"}
    /\ IF ba.pc = "raised"
       THEN /\ call' = [call EXCEPT !.pc = "raised", !.exc = ba.exc]
            /\ UNCHANGED fields
       ELSE Wrap(ba.out)
    /\ UNCHANGED <<now, disk, api, net, last, sa, ba>>

FinderNext ==
    \/ SearchVideos(1)
    \/ FinderSearchIter(1)
    \/ Found(1)
    \/ FinderDetailsIter(1)
    \/ Detailed(1)

FinderSpec == PageInit /\ [][FinderNext]_vars

\* the item list search_videos wraps: videos_all's with content_details,
\* search_all's without
FinalItems == IF call.content_details THEN ba.out ELSE sa.videos

\* C16: search_videos returns one domain object per item of the final item
\* list, in the same order.  With content_details the search is made with
\* part 'id' (with 'snippet' without) and the final list is what videos_all
\* returned for the ids of the found items; when the search found no item
\* the result is the empty list and no /videos request is made.  Without
\* content_details no /videos request is made at all.
C16_SearchVideos ==
    call.op = "search_videos" =>
       /\ sa.search_params.part
             = (IF call.content_details THEN "id" ELSE "snippet")
       /\ (last.method = "search" /\ last.called) =>
             Get(last.sent.params, "part")
                = (IF call.content_details THEN "id" ELSE "snippet")
       /\ call.pc = "returned" =>
             /\ Len(call.videos) = Len(FinalItems)
             /\ \A i \in 1..Len(FinalItems) :
                   call.videos[i].raw = FinalItems[i]
       /\ (call.pc = "returned" /\ call.content_details) =>
             /\ ba.pc = "returned"
             /\ ba.method = "videos"
             /\ ba.ids = VideoIds(sa.videos)
             /\ ba.out = Flatten(ba.answers)
             /\ Flatten(ba.requested) = ba.ids
       /\ (sa.pc = "returned" /\ sa.videos = <<>>) =>
             /\ ba.requested = <<>>
             /\ last.method = "search"
             /\ call.pc \notin {"raised"}
             /\ call.pc = "returned" => call.videos = <<>>
       /\ ~call.content_details =>
             /\ ba = IdleBa
             /\ last.method = "search"

\* a search with content_details found two videos on two pages, a /videos
\* request for their ids was made and its two items came back wrapped
C16_Witness ==
    /\ InFinder("returned")
    /\ call.content_details
    /\ sa.pages = 2
    /\ Len(sa.videos) = 2
    /\ Len(ba.requested) = 1
    /\ Len(call.videos) = 2
    /\ call.videos[2].raw.kind = "youtube#video"
    /\ call.videos[2].raw.id = sa.videos[2].id.videoId

----------------------------------------------------------------------------
(* A client constructed with caching=False, checked under CrashSpec (the    *)
(* backing file may exist, hold live entries, or be unparseable)            *)

\* client c comes to exist in this step, constructed with caching=False
ConstructedPlain(c) ==
    /\ ~api[c].alive
    /\ api'[c].alive
    /\ ~api'[c].caching

\* C21: a client constructed with caching=False sends every request to the
\* transport, one call per request, also for a request it has just made and
\* for one the file holds a live entry for; its construction and its
\* requests leave the directory and the file as they are, and what the file
\* holds (live entries, or no parseable document) has no effect on it: it
\* holds no cache entry at any time and its construction does not raise.
C21_CachingDisabled ==
    [][\A c \in Clients :
          /\ ConstructedPlain(c) =>
                /\ disk' = disk
                /\ api'[c].cache = EmptyCache
          /\ (\E caching_delay \in 1..MaxTtl :
                 ConstructWith(c, FALSE, caching_delay)) => api'[c].alive
          /\ (RequestBy(c) /\ ~api[c].caching) =>
                /\ last'.called
                /\ net' = net + 1
                /\ last'.sent.url = BASE_URL \o last'.method
                /\ disk' = disk
                /\ api'[c].cache = EmptyCache]_vars

\* a client without caching has repeated the request of its previous call,
\* for which the file (left by a caching client) holds a live entry, and the
\* transport was called again
C21_Witness ==
    /\ api[1].alive
    /\ ~api[1].caching
    /\ api[1].cache = EmptyCache
    /\ last.called
    /\ last.exc = "none"
    /\ net = 3
    /\ last.value.etag = 3
    /\ disk.exists
    /\ disk.parses
    /\ LET h == request_hash(last.method, last.params)
       IN  /\ h \in DOMAIN disk.data
           /\ disk.data[h].response.etag = 1
           /\ NotExpired(disk.data[h].time_str, now, 1)

----------------------------------------------------------------------------
(* The domain objects, lines 366-421, checked under AdapterSpec: a caller   *)
(* builds YoutubeVideo instances from /search and /videos items, keeps      *)
(* them, and reads their video_id.  The frame call holds held (the          *)
(* instances built so far, oldest first) and the latest attribute access:   *)
(* at (the index of the instance), got and exc (what it returned or         *)
(* raised).                                                                 *)

\* the items handed to the constructor: two /search results, two /videos
\* resources, and an item without 'kind'
AdapterItems ==
    { SearchItems(n, 1)[1] : n \in 1..2 }
    \cup { [kind |-> "youtube#video", etag |-> n, id |-> Ids(n)[n]] :
              n \in 1..2 }
    \cup { [etag |-> 1] }

\* the member of the item raw reached by the keys of path is a JSON object
\* (of the values of the model, the item itself and the id of a /search
\* result are; the id of a /videos resource is a string)
IsObject(raw, path) ==
    \/ path = <<>>
    \/ path = <<"id">> /\ raw.kind = "youtube#searchResult"

RECURSIVE GetValue(_, _, _, _)
\* _get_value(key_list, response_element), lines 373-379; response_element
\* is the member of raw reached by path.  Subscripting a string with a key
\* raises TypeError, a missing key KeyError.
GetValue(key_list, response_element, raw, path) ==
    LET key == Head(key_list)
    IN  IF ~IsObject(raw, path)
        THEN [exc |-> "TypeError", value |-> NoValue]
        ELSE IF key \notin DOMAIN response_element
        THEN [exc |-> "KeyError", value |-> NoValue]
        ELSE IF Tail(key_list) # <<>>
        THEN GetValue(Tail(key_list), response_element[key], raw,
                      Append(path, key))
        ELSE [exc |-> "none", value |-> response_element[key]]

\* __getattr__(name) of the instance video, lines 381-387, the class
\* attribute fields being f: a KeyError becomes an AttributeError
GetAttr(f, video, name) ==
    IF name \notin DOMAIN f
    THEN [exc |-> "AttributeError", value |-> NoValue]
    ELSE LET r == GetValue(f[name], video.raw, video.raw, <<>>)
         IN  IF r.exc = "KeyError"
             THEN [exc |-> "AttributeError", value |-> NoValue]
             ELSE r

AdapterInit ==
    /\ now = 0
    /\ disk = NoDisk
    /\ api = [c \in Clients |-> NoApi(c)]
    /\ net = 0
    /\ last = NoLast
    /\ sa = IdleSa
    /\ ba = IdleBa
    /\ call = [op |-> "objects", held |-> <<>>, at |-> 0, got |-> NoValue,
               exc |-> "none"]
    /\ fields = YoutubeVideoFields

\* YoutubeVideo(raw), lines 413-417, the caller keeping the instance
NewYoutubeVideo ==
    /\ Len(call.held) < MaxHeld
    /\ \E raw \in AdapterItems :
          LET n == Built(<<raw>>)
          IN  /\ fields' = FieldsAfter(fields, <<raw>>, n)
              /\ call' = IF n = 1
                         THEN [call EXCEPT
                                 !.held = Append(@, YoutubeVideo(raw)),
                                 !.at = 0, !.got = NoValue, !.exc = "none"]
                         ELSE [call EXCEPT !.at = 0, !.got = NoValue,
                                           !.exc = "KeyError"]
    /\ UNCHANGED <<now, disk, api, net, last, sa, ba>>

\* video.video_id for one of the instances the caller keeps
GetVideoId ==
    /\ \E i \in 1..Len(call.held) :
          LET r == GetAttr(fields, call.held[i], "video_id")
          IN  call' = [call EXCEPT !.at = i, !.got = r.value, !.exc = r.exc]
    /\ UNCHANGED <<now, disk, api, net, last, sa, ba, fields>>

\* the caller lets go of its oldest instance
Forget ==
    /\ call.held # <<>>
    /\ call' = [call EXCEPT !.held = Tail(@), !.at = 0, !.got = NoValue,
                            !.exc = "none"]
    /\ UNCHANGED <<now, disk, api, net, last, sa, ba, fields>>

AdapterNext ==
    \/ NewYoutubeVideo
    \/ GetVideoId
    \/ Forget

AdapterSpec == AdapterInit /\ [][AdapterNext]_vars

\* C22: the map of YoutubeVideo is one for all instances.  The construction
\* of an instance from an item of kind youtube#video sets its video_id path
\* to ['id']; from then on no step changes the path, and video_id of every
\* instance, built before or after, from a /search or a /videos item, is
\* the member 'id' of its item (for a /search item the object holding
\* videoId, not the id string).  Until then video_id of an instance is
\* ['id']['videoId'] of its item.
C22_SharedFieldMap ==
    [][ /\ fields.video_id = <<"id">> => fields'.video_id = <<"id">>
        /\ (\E i \in 1..Len(call'.held) :
               call'.held[i].raw.kind = "youtube#video") =>
              fields'.video_id = <<"id">>
        /\ fields'.video_id \in {<<"id">>, <<"id", "videoId">>}
        /\ \A i \in 1..Len(call'.held) :
              GetAttr(fields', call'.held[i], "video_id")
                 = IF fields'.video_id = <<"id">>
                   THEN [exc |-> "none", value |-> call'.held[i].raw.id]
                   ELSE [exc |-> "none",
                         value |-> call'.held[i].raw.id.videoId]
        /\ call'.at # 0 =>
              /\ call'.exc = "none"
              /\ call'.got = IF fields.video_id = <<"id">>
                             THEN call'.held[call'.at].raw.id
                             ELSE call'.held[call'.at].raw.id.videoId ]_vars

\* the caller built an instance from a /search item, then one from a
\* /videos item, then one from a /search item, and video_id of the first
\* has returned the 'id' object of its item
C22_Witness ==
    /\ call.op = "objects"
    /\ Len(call.held) = 3
    /\ call.held[1].raw.kind = "youtube#searchResult"
    /\ call.held[2].raw.kind = "youtube#video"
    /\ call.held[3].raw.kind = "youtube#searchResult"
    /\ fields.video_id = <<"id">>
    /\ call.at = 1
    /\ call.exc = "none"
    /\ call.got = call.held[1].raw.id
    /\ call.got.videoId = "v11"

----------------------------------------------------------------------------
(* The frame of a cache hit, checked under Spec *)

\* client c, which caches, has just answered a request from its cache
HitBy(c) ==
    /\ RequestBy(c)
    /\ api[c].caching
    /\ ~last'.called

\* C23: a request answered from the cache changes neither the client's
\* cache nor the directory and the file, and it makes no transport call.
\* The entry it was answered from keeps the timestamp of its store and is
\* younger than the ttl; an entry whose store lies the ttl or more back is
\* not served, whatever was read before: the transport is called.
C23_HitLeavesEntry ==
    [][\A c \in Clients :
          LET h == request_hash(last'.method, last'.params)
          IN  /\ HitBy(c) =>
                    /\ api'[c] = api[c]
                    /\ disk' = disk
                    /\ net' = net
                    /\ h \in DOMAIN api[c].cache
                    /\ api'[c].cache[h].time_str = api[c].cache[h].time_str
                    /\ last'.value = api[c].cache[h].response
                    /\ Age(c, h) < api[c].expires
              /\ ( /\ RequestBy(c)
                   /\ api[c].caching
                   /\ h \in DOMAIN api[c].cache
                   /\ Age(c, h) >= api[c].expires ) =>
                    last'.called]_vars

\* an entry stored at time 0 with a ttl of 2 was served at time 1, the last
\* tick of its life, and the cache and the file still hold it with the
\* timestamp of its store
C23_Witness ==
    /\ api[1].alive
    /\ api[1].caching
    /\ api[1].expires = 2
    /\ ~last.called
    /\ last.client = 1
    /\ last.prior = 0
    /\ now = 1
    /\ disk.data = api[1].cache
    /\ LET h == request_hash(last.method, last.params)
       IN  /\ h \in DOMAIN api[1].cache
           /\ FromIsoFormat(api[1].cache[h].time_str) = 0
           /\ last.value = api[1].cache[h].response

----------------------------------------------------------------------------
(* The content of the backing file at every moment, checked under CrashSpec *)

\* the file holds a complete JSON document whose entries were all stored by
\* a client
CompleteDocument(d) ==
    /\ d.parses
    /\ \A h \in DOMAIN d.data :
          \E c \in Clients : d.data[h].writer = DeveloperKey(c)

\* C24: the backing file is at every moment absent or a complete parseable
\* document of entries a client stored, also when a process was killed
\* inside the rewrite of a miss, and no construction fails on it.
C24_FileIntact ==
    /\ disk.exists => CompleteDocument(disk)
    /\ \A c \in Clients : api[c].exc # "JSONDecodeError"

====
